---- MODULE Spec2Model ----
(***************************************************************************)
(* Trannergy PV inverter integration: the response parser of api.py and    *)
(* the polling coordinator of coordinator.py, with the start-up sequence   *)
(* of __init__.py.                                                         *)
(*                                                                         *)
(* Numbers.  Every numeric field of a snapshot is a float obtained as      *)
(* float(raw) / divider with divider in {1, 10, 100}.  The model keeps     *)
(* such a value as the integer number of hundredths, raw * (100 / divider),*)
(* which is exact and preserves equality and order of the floats.          *)
(* A Python None is NoVal (NoString for a string); a key missing from a     *)
(* dict is NoVal as well.                                                   *)
(* A message is a sequence of bytes, byte offset o of the source being     *)
(* element o + 1.  None and b"" are both the empty sequence: every use in  *)
(* the source tests the message for truthiness only.                       *)
(***************************************************************************)
EXTENDS Integers, Sequences, FiniteSets, TLC

\* ------------------------------------------------------------------ bounds
MaxTicks == 3
MaxInFlight == 2
MaxSerial == 300

\* --------------------------------------------------------------- constants
NoVal == -1
NoString == <<NoVal>>
NoData == [status |-> "None"]
MinResponseLen == 80
SentinelShort == 65535
MaxTemperature == 15000
ReadLimit == 1024
PRESERVE_WHEN_OFFLINE == {"energytotal", "hourstotal"}

\* ------------------------------------------------------------ api.py codec
_safe_float(value, default) == IF value = NoVal THEN default ELSE value

_get_short(msg, begin, divider) ==
    IF Len(msg) = 0 THEN NoVal
    ELSE IF begin + 2 > Len(msg) THEN NoVal
    ELSE LET num == msg[begin + 1] * 256 + msg[begin + 2]
         IN IF num = SentinelShort THEN NoVal ELSE (num * 100) \div divider

\* mutation: the long has the sentinel of the short
_get_long_Sentinel(msg, begin, divider) ==
    IF Len(msg) = 0 THEN NoVal
    ELSE IF begin + 4 > Len(msg) THEN NoVal
    ELSE LET num == ((msg[begin + 1] * 256 + msg[begin + 2]) * 256
                        + msg[begin + 3]) * 256 + msg[begin + 4]
         IN IF num = SentinelShort THEN NoVal ELSE (num * 100) \div divider

_get_long(msg, begin, divider) ==
    IF Len(msg) = 0 THEN NoVal
    ELSE IF begin + 4 > Len(msg) THEN NoVal
    ELSE LET num == ((msg[begin + 1] * 256 + msg[begin + 2]) * 256
                        + msg[begin + 3]) * 256 + msg[begin + 4]
         IN (num * 100) \div divider

RECURSIVE StripLeft(_)
StripLeft(s) == IF s # <<>> /\ Head(s) = 0 THEN StripLeft(Tail(s)) ELSE s

RECURSIVE StripRight(_)
StripRight(s) ==
    IF s # <<>> /\ s[Len(s)] = 0 THEN StripRight(SubSeq(s, 1, Len(s) - 1)) ELSE s

\* bytes begin .. end-1 decoded and stripped of NUL at both ends; a byte
\* above 127 is taken as a decoding failure (the inputs are ASCII)
_get_string(msg, begin, end) ==
    IF Len(msg) = 0 THEN NoString
    ELSE LET hi == IF end < Len(msg) THEN end ELSE Len(msg)
             s == SubSeq(msg, begin + 1, hi)
         IN IF \E i \in 1..Len(s) : s[i] > 127 THEN NoString
            ELSE StripRight(StripLeft(s))

_get_offline_data ==
    [status |-> "Offline", actualpower |-> 0, energytoday |-> 0,
     energytotal |-> 0, hourstotal |-> 0, invertersn |-> <<>>,
     temperature |-> 0,
     dcinputvoltage1 |-> 0, dcinputcurrent1 |-> 0, acoutputvoltage1 |-> 0,
     acoutputcurrent1 |-> 0, acoutputfrequency1 |-> 0, acoutputpower1 |-> 0,
     dcinputvoltage2 |-> 0, dcinputcurrent2 |-> 0, acoutputvoltage2 |-> 0,
     acoutputcurrent2 |-> 0, acoutputfrequency2 |-> 0, acoutputpower2 |-> 0,
     dcinputvoltage3 |-> 0, dcinputcurrent3 |-> 0, acoutputvoltage3 |-> 0,
     acoutputcurrent3 |-> 0, acoutputfrequency3 |-> 0, acoutputpower3 |-> 0]

\* mutation: only the empty message is turned away
TooShort_EmptyOnly(msg) == Len(msg) = 0

\* not self._raw_msg or len(self._raw_msg) < 80
TooShort(msg) == Len(msg) = 0 \/ Len(msg) < MinResponseLen

\* mutation: the limit itself counts as implausible
Implausible_AtLimit(temperature) ==
    temperature = NoVal \/ temperature >= MaxTemperature

\* temperature is None or temperature > 150
Implausible(temperature) ==
    temperature = NoVal \/ temperature > MaxTemperature

_parse_data(msg) ==
    IF TooShort(msg) THEN _get_offline_data
    ELSE LET temperature == _get_short(msg, 31, 10)
             sn == _get_string(msg, 15, 31)
             S(begin, divider) == _safe_float(_get_short(msg, begin, divider), 0)
         IN IF Implausible(temperature)
            THEN _get_offline_data
            ELSE [status |-> "Online",
                  actualpower |-> S(59, 1),
                  energytoday |-> S(69, 100),
                  energytotal |-> _safe_float(_get_long(msg, 71, 10), 0),
                  hourstotal |-> _safe_float(_get_long(msg, 75, 1), 0),
                  invertersn |-> IF sn = NoString THEN <<>> ELSE sn,
                  temperature |-> _safe_float(temperature, 0),
                  dcinputvoltage1 |-> S(33, 10), dcinputcurrent1 |-> S(39, 10),
                  dcinputvoltage2 |-> S(35, 10), dcinputcurrent2 |-> S(41, 10),
                  dcinputvoltage3 |-> S(37, 10), dcinputcurrent3 |-> S(43, 10),
                  acoutputvoltage1 |-> S(51, 10), acoutputcurrent1 |-> S(45, 10),
                  acoutputfrequency1 |-> S(57, 100), acoutputpower1 |-> S(59, 1),
                  acoutputvoltage2 |-> S(53, 10), acoutputcurrent2 |-> S(47, 10),
                  acoutputfrequency2 |-> S(61, 100), acoutputpower2 |-> S(63, 1),
                  acoutputvoltage3 |-> S(55, 10), acoutputcurrent3 |-> S(49, 10),
                  acoutputfrequency3 |-> S(65, 100), acoutputpower3 |-> S(67, 1)]

\* -------------------------------------------- api.py _generate_request
\* hex(n)[2:] for n >= 0: the hexadecimal digits of n, most significant
\* first, without leading zeros
RECURSIVE Hex(_)
Hex(n) == IF n < 16 THEN <<n>> ELSE Append(Hex(n \div 16), n % 16)

\* what bytearray.fromhex raises on a string it cannot decode
ValueError == <<NoVal>>

\* bytearray.fromhex: two digits make a byte, a digit left over is an error
FromHex(digits) ==
    IF Len(digits) % 2 # 0 THEN ValueError
    ELSE [i \in 1..(Len(digits) \div 2) |-> digits[2 * i - 1] * 16 + digits[2 * i]]

\* mutation: the bytes are not reversed
Reverse_Kept(s) == s

\* bytearray.reverse
Reverse(s) == [i \in 1..Len(s) |-> s[Len(s) + 1 - i]]

RECURSIVE Sum(_)
Sum(s) == IF s = <<>> THEN 0 ELSE Head(s) + Sum(Tail(s))

\* the slice [-2:] of a string
LastTwo(s) == IF Len(s) <= 2 THEN s ELSE SubSeq(s, Len(s) - 1, Len(s))

\* hex(serial_number)[2:] * 2
DoubleHex(digits) == digits \o digits

\* a negative serial number gives the string "x.." which fromhex rejects
_generate_request(serial) ==
    IF serial < 0 THEN ValueError
    ELSE LET double_hex == DoubleHex(Hex(serial))
             decoded == FromHex(double_hex)
         IN IF decoded = ValueError THEN ValueError
            ELSE LET serial_bytes == Reverse(decoded)
                     cs_count == 115 + Sum(serial_bytes)
                     checksum == FromHex(LastTwo(Hex(cs_count)))
                 IN <<104, 2, 64, 48>> \o serial_bytes \o <<1, 0>>
                        \o checksum \o <<22>>

\* ------------------------------------------------ device responses (input)
\* a response of n bytes, zero everywhere except the temperature short at
\* offset 31, the power short at 59, and the two longs at offsets 71 and 75
U16Hi(v) == (v \div 256) % 256
U16Lo(v) == v % 256
Frame(n, temp, power, etotal, htotal) ==
    [i \in 1..n |->
        CASE i = 32 -> U16Hi(temp)   [] i = 33 -> U16Lo(temp)
          [] i = 60 -> U16Hi(power)  [] i = 61 -> U16Lo(power)
          [] i = 72 -> (etotal \div 16777216) % 256
          [] i = 73 -> (etotal \div 65536) % 256
          [] i = 74 -> (etotal \div 256) % 256
          [] i = 75 -> etotal % 256
          [] i = 76 -> (htotal \div 16777216) % 256
          [] i = 77 -> (htotal \div 65536) % 256
          [] i = 78 -> (htotal \div 256) % 256
          [] i = 79 -> htotal % 256
          [] OTHER -> 0]

EnergyRaw == {0, 500, 1000}
HoursRaw == {0, 7}
OnlineFrames == {Frame(80, 1500, 230, e, h) : e \in EnergyRaw, h \in HoursRaw}
OfflineFrames == {<<>>, Frame(79, 150, 0, 1000, 7), Frame(80, SentinelShort, 0, 1000, 7)}
\* a response longer than what one read takes
LongFrames == {Frame(ReadLimit + 1, 1500, 230, 1000, 7)}
Responses == OnlineFrames \cup OfflineFrames
\* what a device of either kind may send to the one read of a fetch
Sends(kind) == IF kind = "long" THEN Responses \cup LongFrames ELSE Responses

\* what the persistence adapter may hold when the integration is first set up
NoStore == [energytotal |-> NoVal, hourstotal |-> NoVal]
InitialStores == {NoStore, [energytotal |-> 7000, hourstotal |-> NoVal]}

\* ------------------------------------------------------------------- state
VARIABLES
    store,               \* mapping held by the persistence adapter (Store)
    last_valid_data,     \* coordinator._last_valid_data
    inverter_online,     \* coordinator._inverter_online
    unsub_interval,      \* TRUE iff coordinator._unsub_interval is set
    subscriptions,       \* listeners of the coordinator that the interval
                         \* tracker of the event loop holds
    raw_msg,             \* api._raw_msg
    data,                \* coordinator.data, NoData for None
    last_update_success, \* coordinator.last_update_success
    stage,               \* position of async_setup_entry
    tasks,               \* the refreshes in flight, by slot
    ticks,               \* refreshes started so far
    restarted,           \* TRUE iff Home Assistant has restarted
    last_tick,           \* history: how the last settled refresh ended
    recorded,            \* history: per key, a non-zero online value was stored
    since_online,        \* history: per key, the non-zero value of the last
                         \* online refresh if only offline ones settled since
    serial_number,       \* api._serial_number
    device,              \* environment: "long" if the device may send more
                         \* than a read takes, else "short"
    request,             \* history: the frame handed to writer.write last
    last_io,             \* history: the socket use of the fetch that ended last
    online_seen,         \* history: a fetch returned an Online snapshot,
                         \* and a refresh settled with one
    reparsed,            \* history: what a second parse of the message returned
    got,                 \* history: per slot, the bytes the read of its fetch returned
    at_start             \* history: per slot, the coordinator when its refresh began

vars == <<store, last_valid_data, inverter_online, unsub_interval,
          subscriptions, raw_msg,
          data, last_update_success, stage, tasks, ticks, restarted,
          last_tick, recorded, since_online, serial_number, device, at_start, got, reparsed, request,
          last_io, online_seen>>

Slots == 1..MaxInFlight

\* history of one call of async_get_data: attempts counts the calls of
\* open_connection, frames those of writer.write, reads those of
\* reader.read, closes those of writer.close; connected says that
\* open_connection returned, open that the connection is established and
\* not closed, teardown that wait_closed raised; event is what an await
\* of the call ended with other than a result and at is that await;
\* pending is the exception with which the finally block was entered;
\* outcome is "none" while the call runs, then "returned" or the exception
\* the call ended with
NoIo == [attempts |-> 0, connected |-> FALSE, open |-> FALSE, frames |-> 0,
         reads |-> 0, closes |-> 0, teardown |-> FALSE, event |-> "none",
         at |-> "none", pending |-> "none", outcome |-> "none"]
\* mutation: a second connection is opened
Attempted_Again(io) == [io EXCEPT !.attempts = @ + 2]
Attempted(io) == [io EXCEPT !.attempts = @ + 1]
Connected(io) == [io EXCEPT !.connected = TRUE, !.open = TRUE]
Written(io) == [io EXCEPT !.frames = @ + 1]
ReadIssued(io) == [io EXCEPT !.reads = @ + 1]
RaisedAt(io, exc, where) == [io EXCEPT !.event = exc, !.at = where]
\* mutation: the finally block does not close the writer
Closed_Forgotten(io, exc) == [io EXCEPT !.pending = exc]
\* finally: writer.close(), with the exception of the try block pending
Closed(io, exc) == [io EXCEPT !.open = FALSE, !.closes = @ + 1, !.pending = exc]
Finished(io, teardown, outcome) ==
    [io EXCEPT !.teardown = teardown, !.outcome = outcome]

\* mutation: the except clause for asyncio.TimeoutError is missing
Raised_Unwrapped(exc) == IF exc = "timeout" THEN "other" ELSE exc

\* except asyncio.TimeoutError raises TrannergyInverterTimeoutError, except
\* OSError raises TrannergyInverterConnectionError, anything else passes
Raised(exc) == exc

\* reader.read(1024) returns at most 1024 of the bytes the device sent
Received(sent) ==
    IF Len(sent) <= ReadLimit THEN sent ELSE SubSeq(sent, 1, ReadLimit)

\* pc and exc are the position in async_get_data and the exception pending
\* in its finally block, data the local variable of _async_update_data;
\* parsed, before and after are history: what the parser returned and the
\* preserved map before and after the loop of the online branch, and
\* after_failure that the refresh before it had ended in UpdateFailed
IdleTask == [pc |-> "idle", exc |-> "none", data |-> NoData,
             parsed |-> NoData, before |-> NoStore, after |-> NoStore,
             io |-> NoIo, after_failure |-> FALSE]

\* history of the refresh that settled last: result is "emitted" or
\* "failed" (UpdateFailed), cause what ended it, prev the coordinator data
\* it replaced, wrote whether it called the persistence adapter, stored
\* and memory the adapter's and the coordinator's map when it settled
NoTick == [result |-> "none", cause |-> "none", parsed |-> NoData,
           emitted |-> NoData, prev |-> NoData, before |-> NoStore,
           after |-> NoStore, wrote |-> FALSE, online |-> FALSE,
           first |-> FALSE, stored |-> NoStore, memory |-> NoStore,
           recorded |-> [k \in PRESERVE_WHEN_OFFLINE |-> FALSE],
           since |-> NoStore, after_failure |-> FALSE]

\* mutation: the coordinator starts with the flag set
InitialOnline_True == TRUE

\* __init__: self._inverter_online = False
InitialOnline == FALSE

NoOnline == [returned |-> FALSE, settled |-> FALSE]
NoStart == [online |-> FALSE, memory |-> NoStore]

Init ==
    /\ store \in InitialStores
    /\ last_valid_data = NoStore
    /\ inverter_online = InitialOnline
    /\ unsub_interval = FALSE
    /\ subscriptions = 0
    /\ raw_msg = <<>>
    /\ data = NoData
    /\ last_update_success = TRUE
    /\ stage = "load"
    /\ serial_number = 12345
    /\ device = "short"
    /\ at_start = [t \in Slots |-> NoStart]
    /\ got = [t \in Slots |-> <<>>]
    /\ reparsed = NoData
    /\ request = <<>>
    /\ last_io = NoIo
    /\ online_seen = NoOnline
    /\ tasks = [t \in Slots |-> IdleTask]
    /\ ticks = 0
    /\ restarted = FALSE
    /\ last_tick = NoTick
    /\ recorded = [k \in PRESERVE_WHEN_OFFLINE |-> FALSE]
    /\ since_online = NoStore

\* the same start with a device that may also send more than a read takes
FetchInit ==
    /\ store \in InitialStores
    /\ last_valid_data = NoStore
    /\ inverter_online = InitialOnline
    /\ unsub_interval = FALSE
    /\ subscriptions = 0
    /\ raw_msg = <<>>
    /\ data = NoData
    /\ last_update_success = TRUE
    /\ stage = "load"
    /\ serial_number = 12345
    /\ device = "long"
    /\ at_start = [t \in Slots |-> NoStart]
    /\ got = [t \in Slots |-> <<>>]
    /\ reparsed = NoData
    /\ request = <<>>
    /\ last_io = NoIo
    /\ online_seen = NoOnline
    /\ tasks = [t \in Slots |-> IdleTask]
    /\ ticks = 0
    /\ restarted = FALSE
    /\ last_tick = NoTick
    /\ recorded = [k \in PRESERVE_WHEN_OFFLINE |-> FALSE]
    /\ since_online = NoStore

\* --------------------------------------------------------- coordinator.py
\* mutation: the stored mapping is never taken over
LoadedData_Ignored(stored, current) == current

\* async_load_stored_data: a falsy stored value (None or {}) is ignored
LoadedData(stored, current) ==
    IF \E k \in PRESERVE_WHEN_OFFLINE : stored[k] # NoVal THEN stored ELSE current

\* mutation: the test for zero is missing
OnlineValue_StoresZero(preserved, snapshot, key) ==
    IF snapshot[key] # NoVal /\ preserved[key] # snapshot[key]
    THEN snapshot[key] ELSE preserved[key]

\* the loop of the online branch: the value stored for key after the refresh
OnlineValue(preserved, snapshot, key) ==
    IF snapshot[key] # NoVal /\ snapshot[key] # 0
    THEN IF preserved[key] # snapshot[key] THEN snapshot[key] ELSE preserved[key]
    ELSE preserved[key]

UpdatePreserved(preserved, snapshot) ==
    [key \in PRESERVE_WHEN_OFFLINE |-> OnlineValue(preserved, snapshot, key)]

\* mutation: every online refresh counts as a change
DataChanged_Always(preserved, snapshot) == TRUE

\* data_changed of the online branch
DataChanged(preserved, snapshot) ==
    \E key \in PRESERVE_WHEN_OFFLINE :
        /\ snapshot[key] # NoVal /\ snapshot[key] # 0
        /\ preserved[key] # snapshot[key]

\* mutation: the preserved values are not copied into the snapshot
OverlayPreserved_Skipped(snapshot, preserved) == snapshot

\* the loop of the offline branch and of
\* _get_offline_data_with_preserved_values
OverlayPreserved(snapshot, preserved) ==
    [key \in DOMAIN snapshot |->
        IF key \in PRESERVE_WHEN_OFFLINE /\ preserved[key] # NoVal
        THEN preserved[key] ELSE snapshot[key]]

\* mutation: the except clauses return the bare offline snapshot
_get_offline_data_with_preserved_values_Bare(preserved) == _get_offline_data

_get_offline_data_with_preserved_values(preserved) ==
    OverlayPreserved(_get_offline_data, preserved)

\* history kept for the properties
SinceAfterOnline(snapshot) ==
    [k \in PRESERVE_WHEN_OFFLINE |-> IF snapshot[k] # 0 THEN snapshot[k] ELSE NoVal]
RecordedAfterOnline(snapshot) ==
    [k \in PRESERVE_WHEN_OFFLINE |-> recorded[k] \/ snapshot[k] # 0]
Tick(t, result, cause, parsed, emitted, before, after, wrote) ==
    [result |-> result, cause |-> cause, parsed |-> parsed,
     emitted |-> emitted, prev |-> data, before |-> before, after |-> after,
     wrote |-> wrote, online |-> inverter_online',
     first |-> (stage = "first_refresh"), stored |-> store',
     memory |-> last_valid_data', recorded |-> recorded',
     since |-> since_online', after_failure |-> tasks[t].after_failure]

\* mutation: the listener registered before is not unsubscribed
Subscribed_Leaking(armed, listeners) == listeners + 1

\* async_setup_interval: the listener registered before, if any, is
\* unsubscribed and a new one registered; the number of listeners after it
Subscribed(armed, listeners) ==
    (IF armed THEN listeners - 1 ELSE listeners) + 1

\* async_unload: the listener, if any, is unsubscribed
Unsubscribed(armed, listeners) ==
    IF armed THEN listeners - 1 ELSE listeners

\* DataUpdateCoordinator stores the returned snapshot; the first refresh is
\* followed at once by async_setup_interval (__init__.py)
Emit(t, snapshot, cause, parsed, before, after, wrote) ==
    /\ data' = snapshot
    /\ last_update_success' = TRUE
    /\ tasks' = [tasks EXCEPT ![t] = IdleTask]
    /\ IF stage = "first_refresh"
       THEN /\ stage' = "running"
            /\ unsub_interval' = TRUE
            /\ subscriptions' = Subscribed(unsub_interval, subscriptions)
       ELSE UNCHANGED <<stage, unsub_interval, subscriptions>>
    /\ last_tick' = Tick(t, "emitted", cause, parsed, snapshot, before, after, wrote)

\* UpdateFailed: the data stay, the first refresh gives up the setup
Fail(t, cause, parsed, before, after, wrote) ==
    /\ last_update_success' = FALSE
    /\ tasks' = [tasks EXCEPT ![t] = IdleTask]
    /\ IF stage = "first_refresh"
       THEN stage' = "not_ready" /\ UNCHANGED <<unsub_interval, subscriptions>>
       ELSE UNCHANGED <<stage, unsub_interval, subscriptions>>
    /\ UNCHANGED data
    /\ last_tick' = Tick(t, "failed", cause, parsed, NoData, before, after, wrote)

\* __init__.py: await coordinator.async_load_stored_data()
Load ==
    /\ stage = "load"
    /\ last_valid_data' = LoadedData(store, last_valid_data)
    /\ stage' = "first_refresh"
    /\ UNCHANGED <<store, inverter_online, unsub_interval, subscriptions, raw_msg, data,
                   last_update_success, tasks, ticks, restarted, last_tick,
                   recorded, since_online, serial_number, device, at_start, got, reparsed, request, last_io,
                   online_seen>>

FreeSlot(t) == tasks[t].pc = "idle" /\ \A u \in Slots : u < t => tasks[u].pc # "idle"

\* __init__.py: await coordinator.async_config_entry_first_refresh()
FirstRefreshBegins(t) ==
    /\ stage = "first_refresh"
    /\ \A u \in Slots : tasks[u].pc = "idle"
    /\ FreeSlot(t)
    /\ ticks < MaxTicks
    /\ ticks' = ticks + 1
    /\ tasks' = [tasks EXCEPT ![t].pc = "connect", ![t].io = Attempted(NoIo),
                              ![t].after_failure = ~last_update_success]
    /\ UNCHANGED <<store, last_valid_data, inverter_online, unsub_interval, subscriptions,
                   raw_msg, data, last_update_success, stage, restarted,
                   last_tick, recorded, since_online, serial_number, device,
                   got, reparsed, request, last_io, online_seen>>

FirstRefresh(t) == FirstRefreshBegins(t) /\ UNCHANGED at_start

\* the coordinator as the refresh of slot t finds it when it begins
NoteStart(t) ==
    at_start' = [at_start EXCEPT ![t] = [online |-> inverter_online,
                                         memory |-> last_valid_data]]

\* the same step with the coordinator noted for the slot
FirstRefreshNoted(t) == FirstRefreshBegins(t) /\ NoteStart(t)

\* mutation: an update failure takes the timer away
TimerArmed_UntilFailure == unsub_interval /\ last_update_success

\* async_track_time_interval keeps firing until its unsubscribe is called
TimerArmed == subscriptions > 0

\* the interval timer fires and runs _async_refresh as a new task; nothing
\* in async_setup_interval looks at a refresh that is still pending
TimerFires(t) ==
    /\ stage = "running"
    /\ TimerArmed
    /\ FreeSlot(t)
    /\ ticks < MaxTicks
    /\ ticks' = ticks + 1
    /\ tasks' = [tasks EXCEPT ![t].pc = "connect", ![t].io = Attempted(NoIo),
                              ![t].after_failure = ~last_update_success]
    /\ UNCHANGED <<store, last_valid_data, inverter_online, unsub_interval, subscriptions,
                   raw_msg, data, last_update_success, stage, restarted,
                   last_tick, recorded, since_online, serial_number, device,
                   got, reparsed, request, last_io, online_seen>>

TimerFire(t) == TimerFires(t) /\ UNCHANGED at_start

\* the same step with the coordinator noted for the slot
TimerFireNoted(t) == TimerFires(t) /\ NoteStart(t)

\* mutation: an offline refresh clears the preserved values
PreservedAfterOffline_Cleared(preserved) == NoStore

\* the offline branch and the two except clauses for the transport errors
\* read self._last_valid_data and assign nothing to it
PreservedAfterOffline(preserved) == preserved

\* mutation: the two except clauses for the transport errors are missing
SettleTransportError_Raises(t, cause) ==
    /\ since_online' = NoStore
    /\ UNCHANGED <<store, last_valid_data, inverter_online, recorded,
                   online_seen>>
    /\ Fail(t, cause, NoData, last_valid_data, last_valid_data, FALSE)

\* _async_update_data, except TrannergyInverterTimeoutError and
\* except TrannergyInverterConnectionError
SettleTransportError(t, cause) ==
    /\ inverter_online' = FALSE
    /\ last_valid_data' = PreservedAfterOffline(last_valid_data)
    /\ UNCHANGED <<store, recorded, since_online, online_seen>>
    /\ Emit(t, _get_offline_data_with_preserved_values(last_valid_data),
            cause, NoData, last_valid_data, last_valid_data', FALSE)

\* _async_update_data, except Exception
SettleUnexpected(t, cause) ==
    /\ since_online' = NoStore
    /\ UNCHANGED <<store, last_valid_data, inverter_online, recorded,
                   online_seen>>
    /\ Fail(t, cause, NoData, last_valid_data, last_valid_data, FALSE)

\* mutation: the online branch copies the preserved values as well
OnlineData_Overlaid(parsed, preserved) == OverlayPreserved(parsed, preserved)

\* the snapshot an online refresh returns
OnlineData(parsed, preserved) == parsed

\* _async_update_data from the return of async_get_data to the return of
\* the snapshot or to the await of _async_save_stored_data
SettleParsed(t, parsed) ==
    IF parsed.status = "Online"
    THEN /\ inverter_online' = TRUE
         /\ online_seen' = [returned |-> TRUE,
                            settled |-> online_seen.settled
                                \/ ~DataChanged(last_valid_data, parsed)]
         /\ last_valid_data' = UpdatePreserved(last_valid_data, parsed)
         /\ recorded' = RecordedAfterOnline(parsed)
         /\ since_online' = SinceAfterOnline(parsed)
         /\ UNCHANGED store
         /\ IF DataChanged(last_valid_data, parsed)
            THEN /\ tasks' = [tasks EXCEPT ![t] =
                        [pc |-> "save", exc |-> "none",
                         data |-> OnlineData(parsed, last_valid_data'),
                         parsed |-> parsed,
                         before |-> last_valid_data,
                         after |-> last_valid_data',
                         io |-> tasks[t].io,
                         after_failure |-> tasks[t].after_failure]]
                 /\ UNCHANGED <<data, last_update_success, stage,
                                unsub_interval, subscriptions, last_tick>>
            ELSE Emit(t, OnlineData(parsed, last_valid_data'), "parsed", parsed,
                      last_valid_data, last_valid_data', FALSE)
    ELSE /\ inverter_online' = FALSE
         /\ last_valid_data' = PreservedAfterOffline(last_valid_data)
         /\ UNCHANGED <<store, recorded, since_online, online_seen>>
         /\ Emit(t, OverlayPreserved(parsed, last_valid_data), "parsed", parsed,
                 last_valid_data, last_valid_data', FALSE)

\* the refresh task is cancelled while it is suspended: CancelledError is
\* caught by none of the except clauses, the refresh ends without a new
\* snapshot and without UpdateFailed; a cancelled first refresh ends the
\* setup
SettleCancelled(t, parsed, before, after, wrote) ==
    /\ tasks' = [tasks EXCEPT ![t] = IdleTask]
    /\ IF stage = "first_refresh"
       THEN stage' = "not_ready"
       ELSE UNCHANGED stage
    /\ UNCHANGED <<store, last_valid_data, inverter_online, unsub_interval, subscriptions,
                   data, last_update_success, recorded, since_online,
                   online_seen>>
    /\ last_tick' = Tick(t, "cancelled", "cancelled", parsed, NoData, before,
                         after, wrote)

\* --------------------------------------------------- api.py async_get_data
\* await wait_for(open_connection): connected, then the request is built
\* and written and drain awaited; or the connect fails and the refresh
\* settles at once.  A request that cannot be built goes to the finally
\* block with the ValueError pending.
Connect(t) ==
    /\ tasks[t].pc = "connect"
    /\ UNCHANGED <<raw_msg, ticks, restarted, serial_number, device, at_start, got, reparsed>>
    /\ \E outcome \in {"ok", "timeout", "connerr", "other"} :
        IF outcome = "ok"
        THEN /\ IF _generate_request(serial_number) = ValueError
                THEN /\ tasks' = [tasks EXCEPT
                            ![t].pc = "close", ![t].exc = "other",
                            ![t].io = Closed(RaisedAt(Connected(@), "other",
                                                      "request"), "other")]
                     /\ UNCHANGED request
                ELSE /\ tasks' = [tasks EXCEPT
                            ![t].pc = "drain",
                            ![t].io = Written(Connected(@))]
                     /\ request' = _generate_request(serial_number)
             /\ UNCHANGED <<store, last_valid_data, inverter_online,
                            unsub_interval, subscriptions, data, last_update_success,
                            stage, last_tick, recorded, since_online,
                            last_io, online_seen>>
        ELSE /\ last_io' = Finished(RaisedAt(tasks[t].io, outcome, "connect"),
                                     FALSE, Raised(outcome))
             /\ UNCHANGED request
             /\ IF Raised(outcome) = "other"
                THEN SettleUnexpected(t, "other")
                ELSE SettleTransportError(t, Raised(outcome))

\* await writer.drain(): then reader.read is called; an OSError goes to the
\* finally block
Drain(t) ==
    /\ tasks[t].pc = "drain"
    /\ \E outcome \in {"ok", "connerr"} :
        IF outcome = "ok"
        THEN tasks' = [tasks EXCEPT ![t].pc = "read",
                                    ![t].io = ReadIssued(@)]
        ELSE tasks' = [tasks EXCEPT
                    ![t].pc = "close", ![t].exc = Raised(outcome),
                    ![t].io = Closed(RaisedAt(@, outcome, "drain"),
                                     Raised(outcome))]
    /\ UNCHANGED <<store, last_valid_data, inverter_online, unsub_interval, subscriptions,
                   raw_msg, data, last_update_success, stage, ticks, restarted,
                   last_tick, recorded, since_online, serial_number, device, at_start, got, reparsed, request,
                   last_io, online_seen>>

\* self._raw_msg = await wait_for(reader.read(1024)): the bytes are stored
\* in the client, or the read fails and the message stays
ReadReturns(t) ==
    /\ tasks[t].pc = "read"
    /\ \/ \E sent \in Sends(device) :
            /\ raw_msg' = Received(sent)
            /\ tasks' = [tasks EXCEPT ![t].pc = "close",
                                      ![t].io = Closed(@, "none")]
       \/ \E outcome \in {"timeout", "connerr"} :
            /\ tasks' = [tasks EXCEPT
                    ![t].pc = "close", ![t].exc = Raised(outcome),
                    ![t].io = Closed(RaisedAt(@, outcome, "read"),
                                     Raised(outcome))]
            /\ UNCHANGED raw_msg
    /\ UNCHANGED <<store, last_valid_data, inverter_online, unsub_interval, subscriptions,
                   data, last_update_success, stage, ticks, restarted,
                   last_tick, recorded, since_online, serial_number, device, at_start,
                   reparsed, request, last_io, online_seen>>

Read(t) == ReadReturns(t) /\ UNCHANGED got

\* the same step with the bytes that were read noted for the slot
ReadNoted(t) ==
    /\ ReadReturns(t)
    /\ got' = IF tasks'[t].exc = "none" THEN [got EXCEPT ![t] = raw_msg']
              ELSE got

\* mutation: an error of wait_closed replaces what the try block left
CloseOutcome_TeardownRaises(exc, teardown) == IF teardown THEN "other" ELSE exc

\* except Exception: pass around wait_closed: the pending exception, or
\* none, stays what the try block left
CloseOutcome(exc, teardown) == exc

\* finally, after writer.close(): await writer.wait_closed() ends, with
\* an error of its own if teardown; then the pending exception is raised
\* or self._raw_msg parsed, and _async_update_data goes on without another
\* suspension
Closing(t, teardown) ==
    /\ tasks[t].pc = "close"
    /\ UNCHANGED <<raw_msg, ticks, restarted, serial_number, device, at_start, got, reparsed, request>>
    /\ LET outcome == CloseOutcome(tasks[t].exc, teardown)
       IN CASE outcome = "none" ->
                    /\ last_io' = Finished(tasks[t].io, teardown, "returned")
                    /\ SettleParsed(t, _parse_data(raw_msg))
             [] outcome = "cancelled" ->
                    /\ last_io' = Finished(tasks[t].io, teardown, outcome)
                    /\ SettleCancelled(t, NoData, last_valid_data,
                                       last_valid_data, FALSE)
             [] outcome = "other" ->
                    /\ last_io' = Finished(tasks[t].io, teardown, outcome)
                    /\ SettleUnexpected(t, outcome)
             [] OTHER ->
                    /\ last_io' = Finished(tasks[t].io, teardown, outcome)
                    /\ SettleTransportError(t, outcome)

\* wait_closed returns
Close(t) == Closing(t, FALSE)

\* wait_closed raises and except Exception: pass drops the error
CloseFails(t) == Closing(t, TRUE)

\* await self._store.async_save(self._last_valid_data): the adapter writes
\* the dict it was handed, or raises and the refresh ends in UpdateFailed
SavedData(preserved, task) == preserved

Save(t) ==
    /\ tasks[t].pc = "save"
    /\ UNCHANGED <<last_valid_data, inverter_online, raw_msg, ticks, restarted,
                   recorded, since_online, serial_number, device, at_start, got, reparsed, request, last_io>>
    /\ \/ /\ store' = SavedData(last_valid_data, tasks[t])
          /\ online_seen' = [online_seen EXCEPT !.settled = TRUE]
          /\ Emit(t, tasks[t].data, "parsed", tasks[t].parsed, tasks[t].before,
                  tasks[t].after, TRUE)
       \/ /\ UNCHANGED <<store, online_seen>>
          /\ Fail(t, "save", tasks[t].parsed, tasks[t].before,
                  tasks[t].after, TRUE)

\* the task of a refresh is cancelled at one of its awaits.  Inside the try
\* block of async_get_data (drain, read) the finally block runs first;
\* elsewhere the refresh ends at once.
Cancel(t) ==
    /\ tasks[t].pc \in {"connect", "drain", "read", "close", "save"}
    /\ UNCHANGED <<raw_msg, ticks, restarted, serial_number, device, at_start, got, reparsed, request>>
    /\ CASE tasks[t].pc \in {"drain", "read"} ->
              /\ tasks' = [tasks EXCEPT
                      ![t].pc = "close", ![t].exc = "cancelled",
                      ![t].io = Closed(RaisedAt(@, "cancelled", tasks[t].pc),
                                       "cancelled")]
              /\ UNCHANGED <<store, last_valid_data, inverter_online,
                             unsub_interval, subscriptions, data, last_update_success,
                             stage, last_tick, recorded, since_online,
                             last_io, online_seen>>
         [] tasks[t].pc = "save" ->
              /\ UNCHANGED last_io
              /\ SettleCancelled(t, tasks[t].parsed, tasks[t].before,
                                 tasks[t].after, TRUE)
         [] OTHER ->
              /\ last_io' = Finished(RaisedAt(tasks[t].io, "cancelled",
                                              tasks[t].pc),
                                     FALSE, "cancelled")
              /\ SettleCancelled(t, NoData, last_valid_data, last_valid_data,
                                 FALSE)

\* Home Assistant restarts: the memory is lost, the adapter keeps its file
\* (at any moment and any number of times; the refreshes are what bounds a
\* run)
Restart ==
    /\ stage # "load"
    /\ restarted' = TRUE
    /\ last_valid_data' = NoStore
    /\ inverter_online' = InitialOnline
    /\ unsub_interval' = FALSE
    /\ subscriptions' = 0
    /\ raw_msg' = <<>>
    /\ data' = NoData
    /\ last_update_success' = TRUE
    /\ stage' = "load"
    /\ tasks' = [t \in Slots |-> IdleTask]
    /\ last_tick' = NoTick
    /\ recorded' = [k \in PRESERVE_WHEN_OFFLINE |-> FALSE]
    /\ since_online' = NoStore
    /\ request' = <<>>
    /\ last_io' = NoIo
    /\ online_seen' = NoOnline
    /\ UNCHANGED <<store, ticks, serial_number, device, at_start, got, reparsed>>

Next ==
    \/ Load
    \/ \E t \in Slots : FirstRefresh(t)
    \/ \E t \in Slots : TimerFire(t)
    \/ \E t \in Slots : Connect(t)
    \/ \E t \in Slots : Drain(t)
    \/ \E t \in Slots : Read(t)
    \/ \E t \in Slots : Close(t)
    \/ \E t \in Slots : Save(t)
    \/ Restart

Spec == Init /\ [][Next]_vars

\* one run of the integration, from its setup on and without an unload
RunNext ==
    \/ Load
    \/ \E t \in Slots : FirstRefresh(t)
    \/ \E t \in Slots : TimerFire(t)
    \/ \E t \in Slots : Connect(t)
    \/ \E t \in Slots : Drain(t)
    \/ \E t \in Slots : Read(t)
    \/ \E t \in Slots : Close(t)
    \/ \E t \in Slots : Save(t)

RunSpec == Init /\ [][RunNext]_vars

\* the same run with its history noted: for every refresh the coordinator
\* as it was when the refresh began, and the bytes its read returned.  The
\* client is one object, and the refreshes the timer starts all go
\* through it.
ClientNext ==
    \/ Load
    \/ \E t \in Slots : FirstRefreshNoted(t)
    \/ \E t \in Slots : TimerFireNoted(t)
    \/ \E t \in Slots : Connect(t)
    \/ \E t \in Slots : Drain(t)
    \/ \E t \in Slots : ReadNoted(t)
    \/ \E t \in Slots : Close(t)
    \/ \E t \in Slots : Save(t)

ClientSpec == Init /\ [][ClientNext]_vars

\* coordinator.async_setup_interval() called on the coordinator of a set-up
\* entry, as __init__.py does after the first refresh
SetupInterval ==
    /\ stage = "running"
    /\ subscriptions' = Subscribed(unsub_interval, subscriptions)
    /\ unsub_interval' = TRUE
    /\ UNCHANGED <<store, last_valid_data, inverter_online, raw_msg, data,
                   last_update_success, stage, tasks, ticks, restarted,
                   last_tick, recorded, since_online, serial_number, device,
                   at_start, got, reparsed, request, last_io, online_seen>>

\* async_unload_entry: coordinator.async_unload(); refreshes in flight are
\* not cancelled
Unload ==
    /\ stage = "running"
    /\ subscriptions' = Unsubscribed(unsub_interval, subscriptions)
    /\ unsub_interval' = FALSE
    /\ UNCHANGED <<store, last_valid_data, inverter_online, raw_msg, data,
                   last_update_success, stage, tasks, ticks, restarted,
                   last_tick, recorded, since_online, serial_number, device,
                   at_start, got, reparsed, request, last_io, online_seen>>

\* the run with async_setup_interval and async_unload called at any moment
\* after the setup, in any order and any number of times
TimerNext ==
    \/ Load
    \/ \E t \in Slots : FirstRefresh(t)
    \/ \E t \in Slots : TimerFire(t)
    \/ \E t \in Slots : Connect(t)
    \/ \E t \in Slots : Drain(t)
    \/ \E t \in Slots : Read(t)
    \/ \E t \in Slots : Close(t)
    \/ \E t \in Slots : Save(t)
    \/ SetupInterval
    \/ Unload

TimerSpec == Init /\ [][TimerNext]_vars

\* the event loop calls the listener of async_track_time_interval every
\* interval for as long as it is registered; nothing is assumed about how
\* long the awaits of a refresh take
FairSpec ==
    Init /\ [][RunNext]_vars /\ WF_vars(\E t \in Slots : TimerFire(t))

\* the awaits that async_get_data bounds: wait_for ends open_connection
\* after CONNECTION_TIMEOUT and reader.read after READ_TIMEOUT at the
\* latest, so a refresh that waits there goes on.  writer.drain() and
\* writer.wait_closed() are awaited as they are, and nothing in the source
\* says when they return
BoundedSpec ==
    /\ Init
    /\ [][RunNext]_vars
    /\ \A t \in Slots : WF_vars(Connect(t)) /\ WF_vars(Read(t))

\* the transport session under its environment's faults: the fetch of the
\* first refresh, where the task may be cancelled at any await, the
\* teardown of the connection may fail, and the device may send more than
\* a read takes
FetchNext ==
    \/ Load
    \/ \E t \in Slots : FirstRefresh(t)
    \/ \E t \in Slots : Connect(t)
    \/ \E t \in Slots : Drain(t)
    \/ \E t \in Slots : Read(t)
    \/ \E t \in Slots : Close(t)
    \/ \E t \in Slots : CloseFails(t)
    \/ \E t \in Slots : Save(t)
    \/ \E t \in Slots : Cancel(t)

FetchSpec == FetchInit /\ [][FetchNext]_vars

TypeOK ==
    /\ stage \in {"load", "first_refresh", "running", "not_ready"}
    /\ ticks \in 0..MaxTicks
    /\ inverter_online \in BOOLEAN
    /\ \A k \in PRESERVE_WHEN_OFFLINE : last_valid_data[k] \in Int

\* ------------------------------------------------------------- the codec
\* messages for the parser: Fill is n bytes alike, Patch overwrites the
\* bytes from an offset on, Ramp has a different byte at every offset
Fill(n, byte) == [i \in 1..n |-> byte]
Patch(msg, offset, bytes) ==
    [i \in 1..Len(msg) |->
        IF i > offset /\ i <= offset + Len(bytes) THEN bytes[i - offset]
        ELSE msg[i]]
Ramp(n) == [i \in 1..n |-> (3 * i) % 256]
U16(v) == <<U16Hi(v), U16Lo(v)>>

\* shorter than a response: every length class, bytes of all kinds, among
\* them a message that lacks only its last byte
ShortMessages ==
    {Fill(n, byte) : n \in {0, 1, 32, 33, 79}, byte \in {0, 1, 255}}
        \cup {Frame(79, 1500, 230, 1000, 7), Ramp(79)}

\* long enough, with the temperature short on both sides of each limit
OnlineTemperatures == {0, 150, 1500}
OfflineTemperatures == {1501, 65534, SentinelShort}
TemperatureMessages ==
    {Patch(Fill(n, byte), 31, U16(temp)) :
        n \in {80, 100}, byte \in {0, 1},
        temp \in OnlineTemperatures \cup OfflineTemperatures}
    \cup {Patch(Fill(n, 255), 31, U16(temp)) :
            n \in {80, 100}, temp \in OfflineTemperatures}
    \cup {Patch(Ramp(80), 31, U16(temp)) : temp \in OfflineTemperatures}

\* online, every field with bytes of its own; the longs stay below 2^24 so
\* that a hundred times their value is a number the checker can hold
FieldMessage ==
    Patch(Patch(Patch(Ramp(80), 31, U16(1500)), 71, <<0, 1>>), 75, <<0, 2>>)
SentinelOffsets == {33, 45, 59, 69}
FieldMessages ==
    {FieldMessage}
        \cup {Patch(FieldMessage, o, U16(SentinelShort)) : o \in SentinelOffsets}
        \cup {Patch(Patch(FieldMessage, 33, U16(SentinelShort)),
                    71, <<0, 0, 255, 255>>),
              Patch(FieldMessage, 71, <<0, 0, 255, 255>>),
              Patch(FieldMessage, 75, <<0, 0, 255, 255>>),
              Patch(Patch(FieldMessage, 71, <<0, 0, 0, 0>>), 75, <<0, 0, 0, 0>>)}

TestMessages == ShortMessages \cup TemperatureMessages \cup FieldMessages

\* serial numbers with one to six hexadecimal digits, and one below zero
Serials == 0..MaxSerial \cup {-1, 4095, 4660, 12345, 65535, 1193046, 16777215}

\* the parser and the request builder are static: a message or a serial
\* number is all they read
CodecInit ==
    /\ store = NoStore
    /\ last_valid_data = NoStore
    /\ inverter_online = InitialOnline
    /\ unsub_interval = FALSE
    /\ subscriptions = 0
    /\ data = NoData
    /\ last_update_success = TRUE
    /\ stage = "load"
    /\ request = <<>>
    /\ last_io = NoIo
    /\ online_seen = NoOnline
    /\ tasks = [t \in Slots |-> IdleTask]
    /\ ticks = 0
    /\ restarted = FALSE
    /\ last_tick = NoTick
    /\ recorded = [k \in PRESERVE_WHEN_OFFLINE |-> FALSE]
    /\ since_online = NoStore
    /\ device = "short"
    /\ at_start = [t \in Slots |-> NoStart]
    /\ got = [t \in Slots |-> <<>>]
    /\ reparsed = NoData
    /\ \/ raw_msg \in TestMessages /\ serial_number = 12345
       \/ raw_msg = <<>> /\ serial_number \in Serials

\* mutation: the parser uses the message up
MessageAfterParse_Consumed(msg) == <<>>

\* _parse_data and its helpers read self._raw_msg and never assign it
MessageAfterParse(msg) == msg

\* _parse_data on the message; the snapshot it returns is kept in data
Parse ==
    /\ data = NoData
    /\ data' = _parse_data(raw_msg)
    /\ raw_msg' = MessageAfterParse(raw_msg)
    /\ UNCHANGED <<store, last_valid_data, inverter_online, unsub_interval, subscriptions,
                   last_update_success, stage, tasks, ticks,
                   restarted, last_tick, recorded, since_online,
                   serial_number, device, at_start, got, reparsed, request, last_io,
                   online_seen>>

\* _parse_data once more on what the client holds
Reparse ==
    /\ data # NoData
    /\ reparsed = NoData
    /\ reparsed' = _parse_data(raw_msg)
    /\ raw_msg' = MessageAfterParse(raw_msg)
    /\ UNCHANGED <<store, last_valid_data, inverter_online, unsub_interval, subscriptions,
                   data, last_update_success, stage, tasks, ticks,
                   restarted, last_tick, recorded, since_online,
                   serial_number, device, at_start, got, request, last_io, online_seen>>

\* _generate_request on the serial number
BuildRequest ==
    /\ request = <<>>
    /\ request' = _generate_request(serial_number)
    /\ UNCHANGED <<store, last_valid_data, inverter_online, unsub_interval, subscriptions,
                   raw_msg, data, last_update_success, stage, tasks, ticks,
                   restarted, last_tick, recorded, since_online,
                   serial_number, device, at_start, got, reparsed, last_io, online_seen>>

CodecNext == Parse \/ Reparse \/ BuildRequest

CodecSpec == CodecInit /\ [][CodecNext]_vars

\* --------------------------------------------------------------- sensor.py
\* what a sensor presents: None, a string or a float
None == [none |-> TRUE]
Str(text) == [str |-> text]
Float(value) == [float |-> value]

\* SENSOR_TYPES: the keys whose state class is TOTAL_INCREASING
TOTAL_INCREASING == {"energytotal", "hourstotal"}
SensorKeys == DOMAIN _get_offline_data

\* self.coordinator.data.get(self._sensor_key)
CoordinatorValue(key) ==
    IF data = NoData THEN NoVal
    ELSE IF key \in DOMAIN data THEN data[key] ELSE NoVal

\* mutation: only None is held back
CounterValue_ZeroShown(value) ==
    IF value = NoVal THEN None ELSE Float(value)

\* native_value, the branch of the TOTAL_INCREASING sensors
CounterValue(value) ==
    IF value = NoVal \/ value = 0 THEN None
    ELSE IF value > 0 THEN Float(value) ELSE None

\* TrannergySensor.native_value of the sensor with this key
native_value(key) ==
    IF data = NoData
    THEN IF key = "status" THEN Str("Offline") ELSE None
    ELSE LET value == CoordinatorValue(key)
         IN CASE key = "status" -> Str(value)
              [] key = "invertersn" -> Str(value)
              [] key \in TOTAL_INCREASING -> CounterValue(value)
              [] ~inverter_online -> None
              [] value = NoVal -> Float(0)
              [] OTHER -> Float(value)

\* float(value) > 0 for a value that is neither None nor 0.0
CounterAvailable(value) ==
    IF value = NoVal \/ value = 0 THEN FALSE ELSE value > 0

\* mutation: CoordinatorEntity.available is not overridden
available_Inherited(key) == last_update_success

\* TrannergySensor.available of the sensor with this key
available(key) ==
    IF ~last_update_success THEN FALSE
    ELSE IF key = "status" THEN TRUE
    ELSE IF key \in TOTAL_INCREASING
         THEN CounterAvailable(CoordinatorValue(key))
         ELSE inverter_online

\* ============================================================== properties
Keys == PRESERVE_WHEN_OFFLINE
Settled(tk) == tk.result # "none"
Emitted(tk) == tk.result = "emitted"
OnlineTick(tk) == Settled(tk) /\ tk.cause \in {"parsed", "save"} /\ tk.parsed.status = "Online"
OfflineTick(tk) ==
    /\ Emitted(tk)
    /\ \/ tk.cause \in {"timeout", "connerr"}
       \/ tk.cause = "parsed" /\ tk.parsed.status = "Offline"
FetchInFlight(t) == tasks[t].pc \in {"connect", "drain", "read", "close"}

\* C1: the energytotal and the hourstotal of an emitted snapshot are never
\* lower than those of the snapshot emitted before it
C1_EmittedNeverDecreases ==
    (Emitted(last_tick) /\ last_tick.prev # NoData) =>
        \A k \in Keys : last_tick.emitted[k] >= last_tick.prev[k]

\* C2: once an online refresh has recorded a non-zero value for a key, no
\* snapshot emitted afterwards reports 0.0 for that key
C2_NoZeroOnceRecorded ==
    Emitted(last_tick) =>
        \A k \in Keys : last_tick.recorded[k] => last_tick.emitted[k] # 0

\* C3: an offline refresh emits, for each preserved key, the non-zero value v
\* of the last online refresh when only offline refreshes settled since, and
\* 0.0 when the preserved map has no value for the key
C3_OfflineEmitsLastOnline ==
    OfflineTick(last_tick) =>
        \A k \in Keys :
            /\ last_tick.since[k] # NoVal => last_tick.emitted[k] = last_tick.since[k]
            /\ last_tick.before[k] = NoVal => last_tick.emitted[k] = 0

C3_Witness ==
    /\ OfflineTick(last_tick)
    /\ last_tick.cause = "timeout"
    /\ last_tick.since["energytotal"] = 10000
    /\ last_tick.emitted["energytotal"] = 10000
    /\ last_tick.before["hourstotal"] = NoVal
    /\ last_tick.emitted["hourstotal"] = 0

\* C4: a refresh never replaces the preserved value of a key by a smaller
\* one: after the refresh it is at least what it was before
C4_PreservedNeverSmaller ==
    Settled(last_tick) =>
        \A k \in Keys : last_tick.after[k] >= last_tick.before[k]

\* C5: no step stores zero (or None) as a preserved value, and a key that is
\* present in the preserved map stays present while the coordinator lives
C5_PreservedNeverZeroNorCleared ==
    [][\A k \in Keys :
          /\ last_valid_data'[k] # 0
          /\ (stage' # "load" /\ last_valid_data[k] # NoVal)
                => last_valid_data'[k] # NoVal]_vars

C5_Witness ==
    /\ OnlineTick(last_tick)
    /\ last_tick.parsed["energytotal"] = 0
    /\ last_tick.before["energytotal"] = 10000
    /\ last_valid_data["energytotal"] = 10000

\* C6: a refresh ends in UpdateFailed exactly when something other than the
\* transport's timeout or connection error was raised (an unexpected error
\* of the fetch, a failed write); a timeout or connection error marks the
\* inverter offline and emits the offline snapshot with the preserved values
C6_FailureIffUnexpected ==
    Settled(last_tick) =>
        /\ last_tick.result = "failed" <=> last_tick.cause \in {"other", "save"}
        /\ last_tick.cause \in {"timeout", "connerr"} =>
              /\ Emitted(last_tick)
              /\ ~last_tick.online
              /\ last_tick.emitted =
                    _get_offline_data_with_preserved_values(last_tick.before)

C6_Witness ==
    /\ last_tick.result = "failed"
    /\ last_tick.cause = "save"
    /\ last_update_success = FALSE

\* C7: at most one fetch is in flight at any time
C7_SingleFetchInFlight ==
    Cardinality({t \in Slots : FetchInFlight(t)}) <= 1

\* C8: an online refresh emits exactly the snapshot the parser returned
C8_OnlineEmitsParsed ==
    (Emitted(last_tick) /\ OnlineTick(last_tick)) =>
        last_tick.emitted = last_tick.parsed

C8_Witness ==
    /\ Emitted(last_tick)
    /\ OnlineTick(last_tick)
    /\ last_tick.parsed["energytotal"] = 5000
    /\ last_tick.before["energytotal"] = 10000
    /\ last_tick.parsed["hourstotal"] = 0
    /\ last_tick.before["hourstotal"] = 700
    /\ data = last_tick.parsed

\* C9: an online refresh calls the persistence adapter exactly when the
\* snapshot's value of a preserved key is not None, not zero and differs
\* from the preserved one; what a successful write leaves in the adapter is
\* the in-memory preserved map; without a write the map is as it was
C9_WriteIffChanged ==
    OnlineTick(last_tick) =>
        /\ last_tick.wrote <=>
              \E k \in Keys : /\ last_tick.parsed[k] # NoVal
                              /\ last_tick.parsed[k] # 0
                              /\ last_tick.parsed[k] # last_tick.before[k]
        /\ (last_tick.wrote /\ Emitted(last_tick)) =>
              last_tick.stored = last_tick.memory
        /\ ~last_tick.wrote => last_tick.after = last_tick.before
        /\ \A k \in Keys :
              last_tick.after[k] =
                 IF last_tick.parsed[k] # 0 THEN last_tick.parsed[k]
                 ELSE last_tick.before[k]

C9_Witness ==
    /\ OnlineTick(last_tick)
    /\ Emitted(last_tick)
    /\ last_tick.wrote
    /\ last_tick.before = [energytotal |-> 7000, hourstotal |-> NoVal]
    /\ store = [energytotal |-> 10000, hourstotal |-> 700]

\* C10: no fetch runs before the stored counters are loaded; the first
\* refresh starts from a preserved map equal to the stored mapping (empty
\* when nothing is stored), and a first refresh that finds the inverter
\* offline emits the stored counters
C10_StoredCountersLoadedFirst ==
    /\ stage = "load" => \A t \in Slots : tasks[t].pc = "idle"
    /\ (stage = "first_refresh" /\ \A t \in Slots : tasks[t].pc = "idle")
          => last_valid_data = store
    /\ (last_tick.first /\ OfflineTick(last_tick)) =>
          \A k \in Keys :
              last_tick.emitted[k] =
                 IF last_tick.stored[k] # NoVal THEN last_tick.stored[k] ELSE 0

C10_Witness ==
    /\ restarted
    /\ last_tick.first
    /\ OfflineTick(last_tick)
    /\ last_tick.stored["energytotal"] = 10000
    /\ data["energytotal"] = 10000

\* C11 as stated: the online flag is false in every state that precedes the
\* first refresh that settles with status Online
C11_OfflineUntilOnlineSettled == inverter_online => online_seen.settled

\* C11, amended: the online flag is false in every state that precedes the
\* first fetch that returns a snapshot with status Online; it is set when
\* the snapshot is returned, before the refresh settles
C11_OfflineUntilOnlineReturned == inverter_online => online_seen.returned

\* refreshes have settled, none of them had an Online snapshot, the flag is
\* still false
C11_Witness ==
    /\ Settled(last_tick)
    /\ ~online_seen.returned
    /\ ~inverter_online

\* C12: there is no permanent failure state.  While the integration runs,
\* whatever the refreshes so far ended in (a snapshot, online or offline, or
\* an update failure), the timer starts another refresh, as long as the
\* model's budget of refreshes and of refreshes in flight lasts: the state
\* "running, budget left, a slot free" never lasts forever.
C12_NextTickStartsFetch ==
    []<>(\/ stage # "running"
         \/ ticks = MaxTicks
         \/ \A t \in Slots : tasks[t].pc # "idle")

\* a refresh that ended in an update failure was followed by one that
\* reported the device Online
C12_Witness ==
    /\ last_tick.after_failure
    /\ last_tick.result = "emitted"
    /\ last_tick.emitted.status = "Online"
    /\ data.status = "Online"
    /\ last_update_success

\* the socket histories in the state: of the fetches in flight and of the
\* fetch that ended last
Fetches == {tasks[t].io : t \in Slots} \cup {last_io}
Ended(io) == io.outcome # "none"
\* what the try block of async_get_data left when its finally block began
LeftByTry(io) == IF io.pending = "none" THEN "returned" ELSE io.pending

TimedOutAtSuspension(io) ==
    Ended(io) /\ io.at \in {"connect", "read"} /\ io.event = "timeout"
CancelledAtSuspension(io) ==
    Ended(io) /\ io.at \in {"connect", "read"} /\ io.event = "cancelled"

\* C15 as stated: a cancellation or a timeout at the connect or at the read
\* ends the fetch with the TimeoutError and with the socket released
C15_CancelOrTimeoutIsTimeoutError ==
    TimedOutAtSuspension(last_io) \/ CancelledAtSuspension(last_io) =>
        last_io.outcome = "timeout" /\ ~last_io.open

\* C15, amended: a timeout at the connect or at the read ends the fetch with
\* the TimeoutError, which the refresh turns into an offline snapshot and
\* never into an update failure; a cancellation at either point ends the
\* fetch with the cancellation itself; both release the socket.
C15_TimeoutIsTimeoutError ==
    /\ TimedOutAtSuspension(last_io) =>
          last_io.outcome = "timeout" /\ ~last_io.open
    /\ CancelledAtSuspension(last_io) =>
          last_io.outcome = "cancelled" /\ ~last_io.open
    /\ last_tick.cause = "timeout" => last_tick.result = "emitted"
    /\ last_tick.cause = "cancelled" => last_tick.result = "cancelled"

\* a read was cancelled: the writer was closed and the fetch ended cancelled
C15_Witness ==
    /\ last_io.at = "read"
    /\ last_io.pending = "cancelled"
    /\ last_io.outcome = "cancelled"
    /\ last_io.closes = 1
    /\ ~last_io.open

\* the unsigned big-endian number in width bytes from an offset on
RECURSIVE BigEndian(_, _, _)
BigEndian(msg, offset, width) ==
    IF width = 0 THEN 0
    ELSE BigEndian(msg, offset, width - 1) * 256 + msg[offset + width]

\* the layout of a response: offset, width in bytes and divisor of every
\* numeric field
Layout ==
    [temperature |-> <<31, 2, 10>>,
     dcinputvoltage1 |-> <<33, 2, 10>>, dcinputvoltage2 |-> <<35, 2, 10>>,
     dcinputvoltage3 |-> <<37, 2, 10>>,
     dcinputcurrent1 |-> <<39, 2, 10>>, dcinputcurrent2 |-> <<41, 2, 10>>,
     dcinputcurrent3 |-> <<43, 2, 10>>,
     acoutputcurrent1 |-> <<45, 2, 10>>, acoutputcurrent2 |-> <<47, 2, 10>>,
     acoutputcurrent3 |-> <<49, 2, 10>>,
     acoutputvoltage1 |-> <<51, 2, 10>>, acoutputvoltage2 |-> <<53, 2, 10>>,
     acoutputvoltage3 |-> <<55, 2, 10>>,
     acoutputfrequency1 |-> <<57, 2, 100>>, acoutputfrequency2 |-> <<61, 2, 100>>,
     acoutputfrequency3 |-> <<65, 2, 100>>,
     acoutputpower1 |-> <<59, 2, 1>>, acoutputpower2 |-> <<63, 2, 1>>,
     acoutputpower3 |-> <<67, 2, 1>>,
     actualpower |-> <<59, 2, 1>>,
     energytoday |-> <<69, 2, 100>>,
     energytotal |-> <<71, 4, 10>>,
     hourstotal |-> <<75, 4, 1>>]
NumericFields == DOMAIN Layout
Fields == NumericFields \cup {"status", "invertersn"}

\* status Offline, every number 0.0, the serial number empty
IsOfflineSnapshot(snapshot) ==
    /\ DOMAIN snapshot = Fields
    /\ snapshot.status = "Offline"
    /\ snapshot.invertersn = <<>>
    /\ \A f \in NumericFields : snapshot[f] = 0

Parsed == data # NoData

\* C16: the parser returns the offline snapshot for every message that is
\* empty or shorter than 80 bytes, whatever its bytes
C16_ShortIsOffline ==
    Parsed /\ Len(raw_msg) < 80 => IsOfflineSnapshot(data)

\* a message that lacks one byte and would else be online was parsed
C16_Witness ==
    /\ Parsed
    /\ Len(raw_msg) = 79
    /\ BigEndian(raw_msg, 31, 2) = 1500
    /\ IsOfflineSnapshot(data)

\* C17: for a message of at least 80 bytes the result is the offline
\* snapshot, whatever the other bytes, when the short at offset 31 is 65535
\* or, divided by 10, above 150; else the status is Online, also at 150.0
C17_TemperatureDecidesStatus ==
    Parsed /\ Len(raw_msg) >= 80 =>
        LET raw == BigEndian(raw_msg, 31, 2)
        IN IF raw = 65535 \/ raw > 150 * 10
           THEN IsOfflineSnapshot(data)
           ELSE data.status = "Online"

\* a message with exactly 150.0 degrees was parsed as Online
C17_Witness ==
    /\ Parsed
    /\ Len(raw_msg) >= 80
    /\ BigEndian(raw_msg, 31, 2) = 1500
    /\ data.status = "Online"
    /\ data.temperature = 15000

\* the value of a field, in hundredths: the number at its offset divided by
\* its divisor, and 0.0 for a short of 65535
FieldValue(msg, field) ==
    LET raw == BigEndian(msg, Layout[field][1], Layout[field][2])
    IN IF Layout[field][2] = 2 /\ raw = 65535 THEN 0
       ELSE (raw * 100) \div Layout[field][3]

\* C20: in an Online snapshot every numeric field is the big-endian number
\* at its offset divided by its divisor, but 0.0 for a 16-bit field whose
\* number is 65535; the 32-bit fields have no such exception
C20_FieldsFollowLayout ==
    Parsed /\ data.status = "Online" =>
        \A f \in NumericFields : data[f] = FieldValue(raw_msg, f)

\* a short of 65535 was reported as 0.0 and a long of 65535 as 6553.5
C20_Witness ==
    /\ Parsed
    /\ data.status = "Online"
    /\ BigEndian(raw_msg, 33, 2) = 65535
    /\ data.dcinputvoltage1 = 0
    /\ BigEndian(raw_msg, 71, 4) = 65535
    /\ data.energytotal = 655350
    /\ data.acoutputvoltage1 = 400950

Built == request # <<>>
RECURSIVE HexDigits(_)
HexDigits(n) == IF n < 16 THEN 1 ELSE 1 + HexDigits(n \div 16)
EvenHex(n) == n >= 0 /\ HexDigits(n) % 2 = 0
OddHex(n) == n >= 0 /\ HexDigits(n) % 2 = 1
\* the count least significant bytes of n, the least significant first
LittleEndian(n, count) == [i \in 1..count |-> (n \div 256 ^ (i - 1)) % 256]

\* C18: for a serial number with an even number of hexadecimal digits the
\* request is 68 02 40 30, the bytes of the doubled serial number reversed,
\* 01 00, one byte of checksum (115 plus the sum of those bytes, mod 256),
\* and 16
C18_RequestFrame ==
    Built /\ EvenHex(serial_number) =>
        LET once == LittleEndian(serial_number, HexDigits(serial_number) \div 2)
            serial_bytes == once \o once
        IN request = <<104, 2, 64, 48>> \o serial_bytes \o <<1, 0>>
                        \o <<(115 + Sum(serial_bytes)) % 256>> \o <<22>>

\* the request for 12345 (hex 3039): 39 30 39 30 and the checksum 0x45
C18_Witness ==
    /\ serial_number = 12345
    /\ request = <<104, 2, 64, 48, 57, 48, 57, 48, 1, 0, 69, 22>>

\* C19: no request is produced for a serial number with an odd number of
\* hexadecimal digits
C19_OddHexFails ==
    Built /\ OddHex(serial_number) => request = ValueError

C22_CounterNeverPresentsZero ==
    \A key \in TOTAL_INCREASING :
        /\ native_value(key) # Float(0)
        /\ native_value(key) =
              IF CoordinatorValue(key) > 0 THEN Float(CoordinatorValue(key))
              ELSE None

\* offline with one counter preserved and the other never seen: the first
\* is presented, the second is None
C22_Witness ==
    /\ data.status = "Offline"
    /\ ~inverter_online
    /\ data.energytotal = 7000
    /\ data.hourstotal = 0
    /\ native_value("energytotal") = Float(7000)
    /\ native_value("hourstotal") = None

\* the snapshot the step hands on when the fetch of slot t, suspended in
\* wait_closed after its read, ends and parses: kept by the task that goes
\* on to save, else in the record of the refresh that settled
ParsedBy(t) ==
    IF tasks'[t].pc = "save" THEN tasks'[t].parsed ELSE last_tick'.parsed
FetchParses(t) ==
    /\ tasks[t].pc = "close"
    /\ tasks[t].exc = "none"
    /\ tasks'[t].pc # "close"

\* C23: the snapshot a fetch returns is the parse of the bytes that fetch
\* read, whatever other fetches on the same client stored meanwhile
C23_ParsesOwnBytes ==
    [][\A t \in Slots :
          FetchParses(t) => ParsedBy(t) = _parse_data(got[t])]_vars

\* the step in which the refresh of slot t ends in UpdateFailed
EndsInFailure(t) ==
    /\ tasks[t].pc # "idle"
    /\ tasks'[t].pc = "idle"
    /\ last_tick'.result = "failed"

\* C24: a refresh that ends in an update failure leaves the preserved
\* counters in memory and the online flag as they were when it began
C24_FailureLeavesState ==
    [][\A t \in Slots :
          EndsInFailure(t) =>
              /\ last_valid_data' = at_start[t].memory
              /\ inverter_online' = at_start[t].online]_vars

\* C25: after every refresh that does not end in an update failure the
\* counters held by the persistence adapter equal the preserved counters in
\* memory, so a value whose write failed is written again later
C25_StoreFollowsMemory ==
    last_tick.result = "emitted" => last_tick.stored = last_tick.memory

\* the step in which the refresh of slot t ends as an offline refresh
EndsOffline(t) ==
    /\ tasks[t].pc # "idle"
    /\ tasks'[t].pc = "idle"
    /\ OfflineTick(last_tick')

\* C26: an offline refresh (parsed status Offline, timeout or connection
\* error) leaves the preserved counters in memory unchanged and issues no
\* write: it does not pass through the save, and the step that ends it
\* changes neither the memory nor what the persistence adapter holds
C26_OfflineTouchesNothing ==
    [][\A t \in Slots :
          EndsOffline(t) =>
              /\ tasks[t].pc # "save"
              /\ last_valid_data' = last_valid_data
              /\ store' = store
              /\ ~last_tick'.wrote]_vars

\* an offline refresh has ended over preserved counters that the adapter
\* does not hold yet: a timeout after a failed write
C26_Witness ==
    /\ OfflineTick(last_tick)
    /\ last_tick.cause = "timeout"
    /\ last_tick.memory = [energytotal |-> 7000, hourstotal |-> 700]
    /\ last_tick.stored = [energytotal |-> 7000, hourstotal |-> NoVal]
    /\ last_valid_data = last_tick.memory
    /\ store = last_tick.stored

\* C27: the three offline paths are one to the consumer: whether the
\* response parsed as Offline, the transport timed out or the connection
\* failed, the refresh emits the offline snapshot overlaid with the
\* preserved counters it found, clears the online flag, reports success and
\* leaves the memory and the persistence adapter alone; what it emits and
\* leaves is a function of those counters, not of the path
C27_OfflinePathsAgree ==
    [][\A t \in Slots :
          EndsOffline(t) =>
              /\ data' = OverlayPreserved(_get_offline_data, last_valid_data)
              /\ last_tick'.emitted = data'
              /\ ~inverter_online'
              /\ last_update_success'
              /\ last_valid_data' = last_valid_data
              /\ store' = store]_vars

\* a connection error ends a refresh with the very snapshot an Offline
\* response had left before it, preserved energytotal included
C27_Witness ==
    /\ OfflineTick(last_tick)
    /\ last_tick.cause = "connerr"
    /\ last_tick.prev # NoData
    /\ last_tick.prev.status = "Offline"
    /\ raw_msg # <<>>
    /\ _parse_data(raw_msg).status = "Offline"
    /\ last_tick.emitted = last_tick.prev
    /\ last_tick.emitted.energytotal = 7000
    /\ data = last_tick.emitted

NoTickInProgress == \A t \in Slots : tasks[t].pc = "idle"

\* C28: whenever the entry is set up and no refresh is in progress, the
\* online flag is true exactly when the status of the current data is
\* Online
C28_FlagMatchesData ==
    (stage = "running" /\ NoTickInProgress) =>
        (inverter_online <=> (data # NoData /\ data.status = "Online"))

\* C30: while the last update succeeded and the inverter is offline, the
\* available sensors are exactly the status sensor and the counter sensors
\* whose current value is greater than 0; after an update failure no
\* sensor is available
C30_AvailableWhenOffline ==
    /\ (last_update_success /\ ~inverter_online) =>
          \A key \in SensorKeys :
              available(key) <=>
                  \/ key = "status"
                  \/ key \in TOTAL_INCREASING /\ CoordinatorValue(key) > 0
    /\ ~last_update_success => \A key \in SensorKeys : ~available(key)

\* offline after a successful update, with a preserved energytotal and no
\* hourstotal: status and energytotal are available, nothing else is
C30_Witness ==
    /\ last_update_success
    /\ ~inverter_online
    /\ data # NoData
    /\ data.status = "Offline"
    /\ data.energytotal = 7000
    /\ data.hourstotal = 0
    /\ {key \in SensorKeys : available(key)} = {"status", "energytotal"}

\* the step in which the interval timer starts a refresh
TimerStartsFetch == stage = "running" /\ ticks' = ticks + 1

\* C29: however async_setup_interval and async_unload are called, the
\* coordinator has at most one listener subscribed to the interval timer;
\* while _unsub_interval is unset, as after async_unload, it has none, and
\* the timer starts a refresh only while one is subscribed
C29_OneSubscription ==
    [][/\ subscriptions' <= 1
       /\ ~unsub_interval' => subscriptions' = 0
       /\ TimerStartsFetch => unsub_interval /\ subscriptions = 1]_vars

\* unloaded after two refreshes with refreshes left to start: no listener,
\* and the timer is not armed
C29_Witness ==
    /\ stage = "running"
    /\ ~unsub_interval
    /\ subscriptions = 0
    /\ ticks = 2
    /\ ticks < MaxTicks
    /\ ~TimerArmed

====
